---- MODULE Spec2Model ----
(***************************************************************************)
(* dom-aware-primitives: the WebSocket streaming extension (das-ws) and    *)
(* the element mutation methods it listens to.                             *)
(*                                                                         *)
(* One subscription made by document.SUBSCRIBE is modelled: its sockets,   *)
(* its reconnect timer, the frame loop of ws.onmessage, the process-wide   *)
(* localChanges map with its sweep, and the asynchronous element methods   *)
(* PUT/POST/DELETE whose success event the map listens to.                 *)
(*                                                                         *)
(* Strings: a missing or empty string property of JavaScript (undefined,   *)
(* "") is the empty string "": the code only ever tests such values for    *)
(* truthiness.  HTML content is the sequence of its top-level nodes; the   *)
(* empty sequence is the empty or missing content string (also falsy).     *)
(***************************************************************************)
EXTENDS Integers, Sequences, FiniteSets, TLC

VARIABLES
    tree,                  \* children of document.body, in document order
    localChanges,          \* Map selector -> { timestamp, method }
    now,                   \* Date.now()
    sweepDue,              \* time at which the setInterval sweep is next due
    socks,                 \* readyState of every WebSocket created so far
    ws,                    \* index of the subscription's current socket, 0 = null
    timers,                \* pending setTimeout callbacks: set of [id, delay]
    timerSeq,              \* number of timers created so far
    reconnectTimeout,      \* handle kept by the subscription, 0 = null
    currentReconnectDelay,
    isIntentionallyClosed,
    opts,                  \* options given to SUBSCRIBE
    remaining,             \* stream items of the current frame still to process
    seen,                  \* items of the current frame processed so far
    notes,                 \* notifications delivered for the current frame
    tree0,                 \* the tree when the current frame arrived
    nframes,               \* frames received so far
    req,                   \* the element method call in progress
    inflight,              \* the server's broadcast of the local mutation
    push,                  \* the update the server last pushed to every open socket
    recorded,              \* history: last record made per selector
    recordedAt,            \* history: time of the last record per selector and method
    nrecords,              \* history: DASOk events dispatched by the page
    suppressed,            \* history: echoes dropped per selector since its record
    waits,                 \* history: reconnect delays scheduled since the last open
    prevWaits,             \* history: waits at the time of the last open
    everOpened,            \* history: some socket has opened
    conn,                  \* history: connection notifications, latest last
    call,                  \* history: the latest call on the control object
    wire,                  \* history: sockets on which send() has transmitted
    subs,                  \* the subscriptions page scripts made, besides the automatic one
    rcv,                   \* the subscription whose socket received the current frame, 0 = automatic
    frameSock,             \* history: the socket that received the current frame
    can,                   \* the <http-can> element: attributes, visibility, checkInProgress
    check,                 \* the checkPermissions call awaiting its OPTIONS response
    cache,                 \* HttpCan.cache: cache key -> allowed methods
    verdict                \* history: the check that last decided the visibility

vars == <<tree, localChanges, now, sweepDue, socks, ws, timers, timerSeq,
          reconnectTimeout, currentReconnectDelay, isIntentionallyClosed, opts,
          remaining, seen, notes, tree0, nframes, req, inflight, push, recorded,
          recordedAt, nrecords, suppressed, waits, prevWaits, everOpened, conn,
          call, wire, subs, rcv, frameSock, can, check, cache, verdict>>

domVars   == <<tree, tree0>>
echoVars  == <<localChanges, recorded, recordedAt, suppressed, nrecords>>
clockVars == <<now, sweepDue>>
connVars  == <<socks, ws, timers, timerSeq, reconnectTimeout,
               currentReconnectDelay, isIntentionallyClosed, opts,
               waits, prevWaits, everOpened, conn, call, wire>>
frameVars == <<remaining, seen, notes, nframes, subs, rcv, frameSock>>
reqVars   == <<req, inflight, push>>
canVars   == <<can, check, cache, verdict>>

----------------------------------------------------------------------------
(* Bounds of the model *)

MaxTicks == 3           \* clock ticks of Step ms
MaxSweepTicks == 5      \* clock ticks of Step ms with the sweep running on time
MaxFrames == 2          \* inbound frames per run
MaxFrameLen == 2        \* stream items per frame
MaxRecords == 2         \* DASOk events dispatched by page scripts
MaxLocal == 1           \* element method calls per run
MaxAttempts == 8        \* sockets created per run
MaxBackoffSockets == 5  \* sockets created per run under any options
MaxAttrChanges == 3     \* attribute changes made on the <http-can> element
MaxControlAttempts == 4 \* sockets created per run with the control object
MaxSends == 2           \* successful send() calls per run
MaxAtomicSockets == 2   \* sockets created per run among frames of several items
MaxPushes == 1          \* updates pushed by the server to every open socket
MaxSubs == 1            \* subscriptions made by page scripts
MaxSupersedeSockets == 3 \* sockets created per run with reconnect() among frames
MaxSubSockets == 3      \* sockets created per run with several subscriptions

(* Program constants *)

CHANGE_TIMEOUT == 5000
DefaultReconnectDelay == 1000
DefaultMaxReconnectDelay == 30000

Step == CHANGE_TIMEOUT \div 2

Min(a, b) == IF a < b THEN a ELSE b

----------------------------------------------------------------------------
(* The DOM.  An element is [id, kids]; a text node has id "#text". *)

\* `this` marks the one element an element method in progress was called on
\* (object identity: a node parsed from content is never that element).
E(id) == [id |-> id, kids |-> <<>>, this |-> FALSE]
N(id, kids) == [id |-> id, kids |-> kids, this |-> FALSE]

NoPath == <<0>>

\* String.prototype.toUpperCase on the method names that occur
ToUpperCase(m) ==
    CASE m = "put" -> "PUT"
      [] m = "post" -> "POST"
      [] m = "delete" -> "DELETE"
      [] OTHER -> m

\* Selectors the model uses, and the id each one asks for.  BadSelector is not
\* a valid selector: querySelector throws a SyntaxError on it.
BadSelector == "li:nth-child("
Selectors == {"#old", "#list", "#missing"}
SelId(sel) ==
    CASE sel = "#old" -> "old"
      [] sel = "#list" -> "list"
      [] sel = "#missing" -> "missing"
      [] OTHER -> "?"

\* document.querySelector for an id: the path (child indexes from body) of the
\* first element in document order with that id, or NoPath.
RECURSIVE FindFrom(_, _, _)
FindFrom(kids, id, i) ==
    IF i > Len(kids) THEN NoPath
    ELSE IF kids[i].id = id THEN <<i>>
    ELSE LET p == FindFrom(kids[i].kids, id, 1)
         IN  IF p # NoPath THEN <<i>> \o p ELSE FindFrom(kids, id, i + 1)

querySelector(doc, sel) == FindFrom(doc, SelId(sel), 1)

RECURSIVE NodeAt(_, _)
NodeAt(kids, path) ==
    IF Len(path) = 1 THEN kids[path[1]]
    ELSE NodeAt(kids[path[1]].kids, Tail(path))

RemoveIdx(s, i) == SubSeq(s, 1, i - 1) \o SubSeq(s, i + 1, Len(s))
ReplaceIdx(s, i, n) == [s EXCEPT ![i] = n]

\* target.parentNode.replaceChild(newElement, target)
RECURSIVE replaceChild(_, _, _)
replaceChild(kids, path, newElement) ==
    IF Len(path) = 1 THEN ReplaceIdx(kids, path[1], newElement)
    ELSE [kids EXCEPT ![path[1]].kids = replaceChild(@, Tail(path), newElement)]

RECURSIVE prependChildren(_, _, _)
prependChildren(kids, path, nodes) ==
    IF path = <<>> THEN nodes \o kids
    ELSE [kids EXCEPT ![path[1]].kids = prependChildren(@, Tail(path), nodes)]

\* target.appendChild(n) for every node of nodes, in order
RECURSIVE appendChildren(_, _, _)
appendChildren(kids, path, nodes) ==
    IF path = <<>> THEN kids \o nodes
    ELSE [kids EXCEPT ![path[1]].kids = appendChildren(@, Tail(path), nodes)]

\* target.remove()
RECURSIVE remove(_, _)
remove(kids, path) ==
    IF Len(path) = 1 THEN RemoveIdx(kids, path[1])
    ELSE [kids EXCEPT ![path[1]].kids = remove(@, Tail(path))]

\* temp.firstElementChild: the first node of the content that is an element
ElementsOf(nodes) == SelectSeq(nodes, LAMBDA n : n.id # "#text")
HasElement(nodes) == ElementsOf(nodes) # <<>>
firstChild(nodes) == nodes[1]

firstElementChild(nodes) == ElementsOf(nodes)[1]

----------------------------------------------------------------------------
(* Stream items and applyUpdate *)

\* innerHTML of the content element: nothing, one element, two elements, and
\* one element after the white space that precedes it in the frame's markup
Contents == { <<>>, <<E("x")>>, <<E("x"), E("y")>>, <<E("#text"), E("x")>> }

Item(m, s, c) == [method |-> m, selector |-> s, content |-> c]

\* What parseStreamItem can yield from a section of a frame
Items ==
    { Item(m, s, c) : m \in {"PUT", "POST"}, s \in Selectors, c \in Contents }
    \cup { Item(m, s, <<>>) : m \in {"DELETE", "delete"}, s \in Selectors }
    \cup { Item("", "#old", <<>>), Item("PUT", "", <<E("x")>>),
           Item("DELETE", BadSelector, <<>>) }

AllSelectors == Selectors \cup {BadSelector}
Methods == {"PUT", "POST", "DELETE"}

NoChange == [timestamp |-> -1, method |-> ""]

\* The local-change test of applyUpdate
IsLocalEchoExact(lc, t, update) ==
    /\ update.selector \in DOMAIN lc
    /\ lc[update.selector] # NoChange
    /\ lc[update.selector].method = update.method
    /\ t - lc[update.selector].timestamp < CHANGE_TIMEOUT

IsLocalEchoLax(lc, t, update) ==
    /\ update.selector \in DOMAIN lc
    /\ lc[update.selector] # NoChange
    /\ lc[update.selector].method = ToUpperCase(update.method)
    /\ t - lc[update.selector].timestamp <= CHANGE_TIMEOUT

IsLocalEcho(lc, t, update) ==
    /\ update.selector \in DOMAIN lc
    /\ lc[update.selector] # NoChange
    /\ lc[update.selector].method = ToUpperCase(update.method)
    /\ t - lc[update.selector].timestamp < CHANGE_TIMEOUT

Result(doc, action) == [tree |-> doc, action |-> action]

\* applyUpdate from the querySelector on: the tree afterwards and what is
\* returned ("false" for false, "throw" for the SyntaxError of querySelector)
ApplyToDom(doc, update) ==
    IF update.selector = BadSelector THEN Result(doc, "throw")
    ELSE LET target == querySelector(doc, update.selector)
             m == ToUpperCase(update.method)
         IN  IF target = NoPath THEN Result(doc, "false")
             ELSE CASE m = "PUT" ->
                         IF update.content # <<>> /\ HasElement(update.content)
                         THEN Result(replaceChild(doc, target,
                                        firstElementChild(update.content)),
                                     "replaced")
                         ELSE Result(doc, "false")
                    [] m = "POST" ->
                         IF update.content # <<>>
                         THEN Result(appendChildren(doc, target, update.content),
                                     "appended")
                         ELSE Result(doc, "false")
                    [] m = "DELETE" -> Result(remove(doc, target), "deleted")
                    [] OTHER -> Result(doc, "false")

applyUpdate(doc, lc, t, update) ==
    IF update.selector = "" THEN Result(doc, "false")
    ELSE IF IsLocalEcho(lc, t, update) THEN Result(doc, "false")
    ELSE ApplyToDom(doc, update)

\* The DASOk listener: localChanges after an event with this detail
RecordChange(lc, detail, t) ==
    IF detail.selector # "" /\ detail.method # ""
    THEN [lc EXCEPT ![detail.selector] =
              [timestamp |-> t, method |-> ToUpperCase(detail.method)]]
    ELSE lc

\* The sweep of setInterval
SweepChangesAll(lc, t) == [s \in DOMAIN lc |-> NoChange]

SweepChangesLate(lc, t) ==
    [s \in DOMAIN lc |->
        IF lc[s] # NoChange /\ t - lc[s].timestamp > 2 * CHANGE_TIMEOUT
        THEN NoChange ELSE lc[s]]

SweepChanges(lc, t) ==
    [s \in DOMAIN lc |->
        IF lc[s] # NoChange /\ t - lc[s].timestamp > CHANGE_TIMEOUT
        THEN NoChange ELSE lc[s]]

----------------------------------------------------------------------------
(* Initial state: the page has loaded, DASAvailable has fired, SUBSCRIBE   *)
(* has run its first connect().                                            *)

InitialDocs ==
    { << E("old"), N("list", <<E("item")>>) >>,
      << N("old", <<E("list")>>) >> }

Options(r, d, m) == [reconnect |-> r, reconnectDelay |-> d, maxReconnectDelay |-> m]
DefaultOptions == Options(TRUE, DefaultReconnectDelay, DefaultMaxReconnectDelay)
OptionSets ==
    { DefaultOptions,
      Options(FALSE, DefaultReconnectDelay, DefaultMaxReconnectDelay),
      Options(TRUE, 500, 1500) }

NoItem == Item("", "", <<>>)
\* to: the sockets that have yet to deliver the push; applied: how many times
\* a frame loop has applied it (history); n: pushes so far
NoPush == [update |-> NoItem, to |-> {}, applied |-> 0, n |-> 0]
NoReq == [stage |-> "none", method |-> "", selector |-> "", body |-> <<>>,
          ok |-> FALSE, html |-> <<>>, event |-> "", n |-> 0]

\* The <http-can> element as its constructor leaves it
NewHttpCan ==
    [method |-> "", selector |-> "", href |-> "", visible |-> FALSE,
     checkInProgress |-> FALSE, connected |-> FALSE, n |-> 0]
NoCheck == [stage |-> "none", method |-> "", selector |-> "", href |-> ""]
\* decided: some check has set the visibility; given: it had a selector or an
\* href; failed: its OPTIONS request threw; allowed: the set it tested against
Verdict(decided, given, failed, method, selector, href, allowed, event) ==
    [decided |-> decided, given |-> given, failed |-> failed, method |-> method,
     selector |-> selector, href |-> href, allowed |-> allowed, event |-> event]
NoVerdict == Verdict(FALSE, FALSE, FALSE, "", "", "", {}, "")

\* The calls made on the control object: name is the latest of close() and
\* reconnect(), pending the timers that were pending when it was made; bit
\* flips at every call; result is what the latest call did if it was send()
\* ("sent" or "throw"), else ""
Call(name, bit, pending, result) ==
    [name |-> name, bit |-> bit, pending |-> pending, result |-> result]
NoCall == Call("none", 0, {}, "")

\* connect(): new WebSocket(...) either returns a socket, which becomes ws, or
\* throws, which the catch turns into onError and nothing else.
SocksAfterConnect(ss, created) == IF created THEN Append(ss, "CONNECTING") ELSE ss
WsAfterConnectKept(ss, w, created) == w
WsAfterConnect(ss, w, created) == IF created THEN Len(ss) + 1 ELSE w

InitWith(docs, options) ==
    /\ tree \in docs
    /\ tree0 = tree
    /\ localChanges = [s \in AllSelectors |-> NoChange]
    /\ recorded = [s \in AllSelectors |-> NoChange]
    /\ recordedAt = [s \in AllSelectors |-> [m \in Methods |-> -1]]
    /\ suppressed = [s \in AllSelectors |-> 0]
    /\ nrecords = 0
    /\ now = 0
    /\ sweepDue = CHANGE_TIMEOUT
    /\ opts \in options
    /\ \E created \in BOOLEAN :
          /\ socks = SocksAfterConnect(<<>>, created)
          /\ ws = WsAfterConnect(<<>>, 0, created)
    /\ timers = {}
    /\ timerSeq = 0
    /\ reconnectTimeout = 0
    /\ currentReconnectDelay = opts.reconnectDelay
    /\ isIntentionallyClosed = FALSE
    /\ remaining = 0
    /\ seen = <<>>
    /\ notes = <<>>
    /\ nframes = 0
    /\ req = NoReq
    /\ inflight = NoItem
    /\ push = NoPush
    /\ waits = <<>>
    /\ prevWaits = <<>>
    /\ everOpened = FALSE
    /\ conn = "none"
    /\ call = NoCall
    /\ wire = <<>>
    /\ subs = <<>>
    /\ rcv = 0
    /\ frameSock = 0
    /\ can = NewHttpCan
    /\ check = NoCheck
    /\ cache = {}
    /\ verdict = NoVerdict

\* No handler is running: every handler runs to completion before the next
\* event is taken (one thread, no await inside the frame loop).
IdleAlways == TRUE

Idle == remaining = 0

----------------------------------------------------------------------------
(* The connection: connect, ws.onopen, ws.onclose, the reconnect timer and *)
(* the control object's close() and reconnect()                            *)

\* ws.onopen: the delay is reset
DelayOnOpenKept(cur, options) == cur

DelayOnOpen(cur, options) == options.reconnectDelay

\* the timer callback's exponential backoff
NextDelayUncapped(cur, options) == cur * 2

NextDelay(cur, options) == Min(cur * 2, options.maxReconnectDelay)

\* ws.onclose schedules a reconnect
ShouldReconnectAlways(options, intentional) == options.reconnect

ShouldReconnect(options, intentional) == options.reconnect /\ ~intentional

\* WebSocket.close(): CONNECTING and OPEN become CLOSING
SocksAfterCloseNone(ss, w) == ss

SocksAfterCloseAll(ss, w) ==
    [k \in DOMAIN ss |-> IF ss[k] \in {"CONNECTING", "OPEN"} THEN "CLOSING" ELSE ss[k]]

SocksAfterClose(ss, w) ==
    IF w # 0 /\ ss[w] \in {"CONNECTING", "OPEN"}
    THEN [ss EXCEPT ![w] = "CLOSING"] ELSE ss

\* clearTimeout(reconnectTimeout), when the handle is set
TimersKept(ts, handle) == ts

TimersAfterClear(ts, handle) == { t \in ts : handle = 0 \/ t.id # handle }

OnOpen(k) ==
    /\ Idle
    /\ socks[k] = "CONNECTING"
    /\ socks' = [socks EXCEPT ![k] = "OPEN"]
    /\ currentReconnectDelay' = DelayOnOpen(currentReconnectDelay, opts)
    /\ conn' = "connected"
    /\ everOpened' = TRUE
    /\ prevWaits' = waits
    /\ waits' = <<>>
    /\ UNCHANGED <<ws, timers, timerSeq, reconnectTimeout, isIntentionallyClosed,
                   opts, call, wire>>
    /\ UNCHANGED <<domVars, echoVars, clockVars, canVars, frameVars, reqVars>>

\* The close event of socket k (after a failed connect, a server or network
\* close, or the end of a closing handshake); a failure also fires ws.onerror
\* first, whose handler only calls onError.
OnClose(k) ==
    /\ Idle
    /\ socks[k] \in {"CONNECTING", "OPEN", "CLOSING"}
    /\ socks' = [socks EXCEPT ![k] = "CLOSED"]
    /\ conn' = "disconnected"
    /\ IF ShouldReconnect(opts, isIntentionallyClosed)
       THEN /\ timers' = timers \cup {[id |-> timerSeq + 1,
                                        delay |-> currentReconnectDelay]}
            /\ timerSeq' = timerSeq + 1
            /\ reconnectTimeout' = timerSeq + 1
            /\ waits' = Append(waits, currentReconnectDelay)
       ELSE UNCHANGED <<timers, timerSeq, reconnectTimeout, waits>>
    /\ UNCHANGED <<ws, currentReconnectDelay, isIntentionallyClosed, opts,
                   prevWaits, everOpened, call, wire>>
    /\ UNCHANGED <<domVars, echoVars, clockVars, canVars, frameVars, reqVars>>

\* The reconnect timer's callback: connect(), then the backoff
TimerFires(limit) ==
    /\ Idle
    /\ Len(socks) < limit
    /\ \E t \in timers, created \in BOOLEAN :
          /\ timers' = timers \ {t}
          /\ socks' = SocksAfterConnect(socks, created)
          /\ ws' = WsAfterConnect(socks, ws, created)
    /\ currentReconnectDelay' = NextDelay(currentReconnectDelay, opts)
    /\ UNCHANGED <<timerSeq, reconnectTimeout, isIntentionallyClosed, opts,
                   waits, prevWaits, everOpened, conn, call, wire>>
    /\ UNCHANGED <<domVars, echoVars, clockVars, canVars, frameVars, reqVars>>

\* subscription.close()
Close ==
    /\ Idle
    /\ isIntentionallyClosed' = TRUE
    /\ timers' = TimersAfterClear(timers, reconnectTimeout)
    /\ socks' = SocksAfterClose(socks, ws)
    /\ call' = Call("close", 1 - call.bit, timers, "")
    /\ UNCHANGED <<ws, timerSeq, reconnectTimeout, currentReconnectDelay, opts,
                   waits, prevWaits, everOpened, conn, wire>>
    /\ UNCHANGED <<domVars, echoVars, clockVars, canVars, frameVars, reqVars>>

\* subscription.reconnect(): isIntentionallyClosed = false; this.close(), which
\* sets it to true again; connect()
Reconnect(limit) ==
    /\ Idle
    /\ Len(socks) < limit
    /\ isIntentionallyClosed' = TRUE
    /\ timers' = TimersAfterClear(timers, reconnectTimeout)
    /\ \E created \in BOOLEAN :
          /\ socks' = SocksAfterConnect(SocksAfterClose(socks, ws), created)
          /\ ws' = WsAfterConnect(socks, ws, created)
    /\ call' = Call("reconnect", 1 - call.bit, timers, "")
    /\ UNCHANGED <<timerSeq, reconnectTimeout, currentReconnectDelay, opts,
                   waits, prevWaits, everOpened, conn, wire>>
    /\ UNCHANGED <<domVars, echoVars, clockVars, canVars, frameVars, reqVars>>

\* subscription.send(data): ws.send(data) when ws is OPEN, else a thrown Error
CanSendAlso(ss, w) == w # 0 /\ ss[w] \in {"OPEN", "CONNECTING"}

CanSend(ss, w) == w # 0 /\ ss[w] = "OPEN"

Send ==
    /\ Idle
    /\ Len(wire) < MaxSends
    /\ IF CanSend(socks, ws)
       THEN /\ wire' = Append(wire, ws)
            /\ call' = [call EXCEPT !.bit = 1 - @, !.result = "sent"]
       ELSE /\ wire' = wire
            /\ call' = [call EXCEPT !.bit = 1 - @, !.result = "throw"]
    /\ UNCHANGED <<socks, ws, timers, timerSeq, reconnectTimeout,
                   currentReconnectDelay, isIntentionallyClosed, opts,
                   waits, prevWaits, everOpened, conn>>
    /\ UNCHANGED <<domVars, echoVars, clockVars, canVars, frameVars, reqVars>>

----------------------------------------------------------------------------
(* ws.onmessage: the frame loop                                            *)

\* What is delivered for an applied update: the DASStreamUpdate event and
\* then the onUpdate callback, both with (update, result)
Note(k, update, action) == [idx |-> k, update |-> update, action |-> action]

NotifyFirst(ns, k, update, action) == <<Note(k, update, action)>> \o ns

Notify(ns, k, update, action) == Append(ns, Note(k, update, action))

\* The subscription whose connect() created socket k
Owner(ss, k) ==
    IF \E i \in DOMAIN ss : ss[i].sock = k
    THEN CHOOSE i \in DOMAIN ss : ss[i].sock = k
    ELSE 0

\* The onUpdate wrapper of HTMLElement.prototype.SUBSCRIBE passes an update on
\* when its selector is the element's; document.SUBSCRIBE passes every one
\* (filter "")
Accepts(filter, update) == filter = "" \/ update.selector = filter

\* A message event on socket k: the data is parsed and holds n stream items
OnMessage(k, maxFrames, maxLen) ==
    /\ Idle
    /\ socks[k] = "OPEN"
    /\ nframes < maxFrames
    /\ \E n \in 0..maxLen : remaining' = n
    /\ seen' = <<>>
    /\ notes' = <<>>
    /\ tree0' = tree
    /\ nframes' = nframes + 1
    /\ rcv' = Owner(subs, k)
    /\ frameSock' = k
    /\ UNCHANGED <<tree, subs, echoVars, clockVars, canVars, connVars, reqVars>>

\* One call of the forEach callback: parseStreamItem, applyUpdate, and the
\* notification when the result is not false.  An exception leaves the loop
\* for the catch around it, which calls onError.
ProcessItem(update, origin) ==
    LET r == applyUpdate(tree, localChanges, now, update)
        k == Len(seen) + 1
        echo == update.selector # "" /\ IsLocalEcho(localChanges, now, update)
    IN  /\ seen' = Append(seen, [update |-> update, origin |-> origin,
                                 echo |-> echo, action |-> r.action])
        /\ tree' = r.tree
        /\ subs' = IF /\ rcv # 0
                      /\ r.action \notin {"false", "throw"}
                      /\ Accepts(subs[rcv].filter, update)
                   THEN [subs EXCEPT ![rcv].got = Append(@, update)]
                   ELSE subs
        /\ push' = IF origin = "push" /\ r.action \notin {"false", "throw"}
                   THEN [push EXCEPT !.applied = Min(@ + 1, 2)]
                   ELSE push
        /\ suppressed' = IF echo
                         THEN [suppressed EXCEPT ![update.selector] = Min(@ + 1, 2)]
                         ELSE suppressed
        /\ IF r.action = "throw"
           THEN /\ remaining' = 0
                /\ notes' = Notify(notes, k, update, "error")
           ELSE /\ remaining' = remaining - 1
                /\ notes' = IF r.action # "false"
                            THEN Notify(notes, k, update, r.action)
                            ELSE notes
        /\ UNCHANGED <<tree0, nframes, rcv, frameSock, localChanges, recorded,
                       recordedAt, nrecords, clockVars, canVars, connVars, req>>

ForEachItem(items) ==
    /\ remaining > 0
    /\ \/ \E update \in items :
            /\ ProcessItem(update, "other")
            /\ UNCHANGED inflight
       \/ /\ inflight # NoItem
          /\ ProcessItem(inflight, "self")
          /\ inflight' = NoItem

\* The server pushes one update to every socket that is open
ServerPush(items) ==
    /\ Idle
    /\ push.n < MaxPushes
    /\ \A k \in push.to : socks[k] # "OPEN"
    /\ \E k \in DOMAIN socks : socks[k] = "OPEN"
    /\ \E update \in items :
          push' = [update |-> update,
                   to |-> { k \in DOMAIN socks : socks[k] = "OPEN" },
                   applied |-> 0, n |-> push.n + 1]
    /\ UNCHANGED <<req, inflight, domVars, echoVars, clockVars, canVars, connVars, frameVars>>

\* The message event of socket k for the server's push: a frame of one item
Deliver(k) ==
    /\ Idle
    /\ k \in push.to
    /\ socks[k] = "OPEN"
    /\ push' = [push EXCEPT !.to = @ \ {k}]
    /\ remaining' = 1
    /\ seen' = <<>>
    /\ notes' = <<>>
    /\ tree0' = tree
    /\ nframes' = nframes + 1
    /\ rcv' = Owner(subs, k)
    /\ frameSock' = k
    /\ UNCHANGED <<tree, subs, echoVars, clockVars, canVars, connVars, req, inflight>>

ForEachPushed ==
    /\ remaining > 0
    /\ ProcessItem(push.update, "push")
    /\ UNCHANGED inflight

----------------------------------------------------------------------------
(* Subscriptions made by page scripts: document.SUBSCRIBE(options) and     *)
(* element.SUBSCRIBE(options), here with { reconnect: false, onUpdate }.   *)
(* Each call runs its own connect() and so owns a socket of its own.       *)

Subscription(filter, sock) ==
    [filter |-> filter, sock |-> sock, closed |-> FALSE, got |-> <<>>]

\* filter "" is document.SUBSCRIBE; otherwise element.SUBSCRIBE on the element
\* whose generated selector is filter
Subscribe(limit) ==
    /\ Idle
    /\ Len(subs) < MaxSubs
    /\ Len(socks) < limit
    /\ \E filter \in {"", "#old"}, created \in BOOLEAN :
          /\ filter # "" => querySelector(tree, filter) # NoPath
          /\ socks' = SocksAfterConnect(socks, created)
          /\ subs' = Append(subs, Subscription(filter,
                                   IF created THEN Len(socks) + 1 ELSE 0))
    /\ UNCHANGED <<ws, timers, timerSeq, reconnectTimeout, currentReconnectDelay,
                   isIntentionallyClosed, opts, waits, prevWaits, everOpened,
                   conn, call, wire>>
    /\ UNCHANGED <<remaining, seen, notes, nframes, rcv, frameSock>>
    /\ UNCHANGED <<domVars, echoVars, clockVars, canVars, reqVars>>

\* Only the sockets change
SocketEvent ==
    /\ UNCHANGED <<ws, timers, timerSeq, reconnectTimeout, currentReconnectDelay,
                   isIntentionallyClosed, opts, waits, prevWaits, everOpened,
                   conn, call, wire>>
    /\ UNCHANGED <<remaining, seen, notes, nframes, rcv, frameSock>>
    /\ UNCHANGED <<domVars, echoVars, clockVars, canVars, reqVars>>

\* ws.onopen of subscription i
SubOpen(i) ==
    /\ Idle
    /\ subs[i].sock # 0
    /\ socks[subs[i].sock] = "CONNECTING"
    /\ socks' = [socks EXCEPT ![subs[i].sock] = "OPEN"]
    /\ UNCHANGED subs
    /\ SocketEvent

\* ws.onclose of subscription i: with reconnect false nothing is scheduled
SubClosed(i) ==
    /\ Idle
    /\ subs[i].sock # 0
    /\ socks[subs[i].sock] \in {"CONNECTING", "OPEN", "CLOSING"}
    /\ socks' = [socks EXCEPT ![subs[i].sock] = "CLOSED"]
    /\ UNCHANGED subs
    /\ SocketEvent

\* close() on the control object of subscription i
SubClose(i) ==
    /\ Idle
    /\ socks' = SocksAfterClose(socks, subs[i].sock)
    /\ subs' = [subs EXCEPT ![i].closed = TRUE]
    /\ SocketEvent

----------------------------------------------------------------------------
(* The clock, the sweep and the DASOk listener                             *)

Tick ==
    /\ Idle
    /\ now < MaxTicks * Step
    /\ now' = now + Step
    /\ UNCHANGED <<sweepDue, domVars, echoVars, connVars, frameVars, reqVars,
                   canVars>>

\* The clock when the interval timer is served on time: its callback runs
\* at the millisecond it is due, before the clock moves on
TickOnTime(limit) ==
    /\ Idle
    /\ now < sweepDue
    /\ now < limit * Step
    /\ now' = now + Step
    /\ UNCHANGED <<sweepDue, domVars, echoVars, connVars, frameVars, reqVars,
                   canVars>>

Sweep ==
    /\ Idle
    /\ now >= sweepDue
    /\ localChanges' = SweepChanges(localChanges, now)
    /\ sweepDue' = now + CHANGE_TIMEOUT
    /\ UNCHANGED <<now, recorded, recordedAt, suppressed, nrecords, domVars,
                   connVars, frameVars, reqVars, canVars>>

\* The listener's effect on the map and on the history of records
Listen(detail) ==
    /\ localChanges' = RecordChange(localChanges, detail, now)
    /\ recorded' = RecordChange(recorded, detail, now)
    /\ IF detail.selector # "" /\ detail.method # ""
       THEN /\ suppressed' = [suppressed EXCEPT ![detail.selector] = 0]
            /\ recordedAt' = [recordedAt EXCEPT
                  ![detail.selector][ToUpperCase(detail.method)] = now]
       ELSE UNCHANGED <<suppressed, recordedAt>>

Detail(sel, m) == [selector |-> sel, method |-> m]

\* A DASOk event dispatched by a script of the page with its own detail
PageDASOk(sels) ==
    /\ Idle
    /\ nrecords < MaxRecords
    /\ nrecords' = nrecords + 1
    /\ \E sel \in sels, m \in {"PUT", "delete", ""} :
          Listen(Detail(sel, m))
    /\ UNCHANGED <<domVars, clockVars, canVars, connVars, frameVars, reqVars>>

----------------------------------------------------------------------------
(* The element methods PUT, POST and DELETE (index.mjs)                    *)

\* The path of the element the method was called on, NoPath once detached
RECURSIVE FindThisFrom(_, _)
FindThisFrom(kids, i) ==
    IF i > Len(kids) THEN NoPath
    ELSE IF kids[i].this THEN <<i>>
    ELSE LET p == FindThisFrom(kids[i].kids, 1)
         IN  IF p # NoPath THEN <<i>> \o p ELSE FindThisFrom(kids, i + 1)

FindThis(doc) == FindThisFrom(doc, 1)

RECURSIVE SetThis(_, _, _)
SetThis(kids, path, b) ==
    IF Len(path) = 1 THEN [kids EXCEPT ![path[1]].this = b]
    ELSE [kids EXCEPT ![path[1]].kids = SetThis(@, Tail(path), b)]

Release(doc) == IF FindThis(doc) = NoPath THEN doc ELSE SetThis(doc, FindThis(doc), FALSE)

\* The detail of the DASOk event processResponse dispatches is
\* { element, response }: the listener finds no selector and no method in it.
DASOkDetail(r) == Detail("", "")

\* processResponse and the end of the method: DASOk when response.ok, else
\* DASError; doc is the tree the method leaves.
Finish(doc, event) ==
    /\ tree' = Release(doc)
    /\ req' = [req EXCEPT !.stage = "done", !.event = event]
    /\ IF event = "DASOk"
       THEN Listen(DASOkDetail(req))
       ELSE UNCHANGED <<localChanges, recorded, recordedAt, suppressed>>
    /\ UNCHANGED <<tree0, nrecords, clockVars, canVars, connVars, frameVars, inflight, push>>

\* element.PUT(), element.POST(data), element.DELETE() up to the fetch
CallMethod ==
    /\ Idle
    /\ req.stage \in {"none", "done"}
    /\ req.n < MaxLocal
    /\ \E m \in {"PUT", "POST", "DELETE"}, s \in {"#old", "#list"} :
          LET p == querySelector(tree, s)
          IN  /\ p # NoPath
              /\ tree' = SetThis(tree, p, TRUE)
              /\ req' = [stage |-> "sent", method |-> m, selector |-> s,
                         body |-> CASE m = "PUT" -> <<NodeAt(tree, p)>>
                                    [] m = "POST" -> <<E("x")>>
                                    [] OTHER -> <<>>,
                         ok |-> FALSE, html |-> <<>>, event |-> "",
                         n |-> req.n + 1]
    /\ UNCHANGED <<tree0, echoVars, clockVars, canVars, connVars, frameVars, inflight, push>>

\* The server answers the request and, when it accepted the mutation,
\* broadcasts it to every subscriber, the originator included.
ServerHandles ==
    /\ Idle
    /\ req.stage = "sent"
    /\ \E ok \in BOOLEAN :
          /\ \E html \in (IF ok /\ req.method # "DELETE"
                           THEN {<<>>, req.body} ELSE {<<>>}) :
                req' = [req EXCEPT !.stage = "responded", !.ok = ok, !.html = html]
          /\ inflight' = IF ok THEN Item(req.method, req.selector, req.body)
                         ELSE inflight
    /\ UNCHANGED push
    /\ UNCHANGED <<domVars, echoVars, clockVars, canVars, connVars, frameVars>>

\* await fetch(...) resumes
FetchResolves ==
    /\ Idle
    /\ req.stage = "responded"
    /\ LET here == FindThis(tree)
       IN  CASE req.method = "DELETE" ->
                  IF req.ok
                  THEN Finish(IF here = NoPath THEN tree ELSE remove(tree, here), "DASOk")
                  ELSE Finish(tree, "DASError")
             [] req.ok /\ req.html # <<>> ->
                  /\ req' = [req EXCEPT !.stage = "text"]
                  /\ UNCHANGED <<domVars, echoVars, clockVars, canVars, connVars,
                                 frameVars, inflight, push>>
             [] req.ok /\ req.html = <<>> -> Finish(tree, "DASOk")
             [] ~req.ok /\ req.method = "PUT" ->
                  /\ req' = [req EXCEPT !.stage = "fallback"]
                  /\ UNCHANGED <<domVars, echoVars, clockVars, canVars, connVars,
                                 frameVars, inflight, push>>
             [] OTHER -> Finish(tree, "DASError")

\* await response.text() resumes: htmlToNode, then replaceChild or appendChild
TextResolves ==
    /\ Idle
    /\ req.stage = "text"
    /\ LET here == FindThis(tree)
       IN  CASE here = NoPath /\ req.method = "PUT" -> Finish(tree, "DASError")
             [] here = NoPath /\ req.method # "PUT" -> Finish(tree, "DASOk")
             [] here # NoPath /\ req.method = "PUT" ->
                  Finish(replaceChild(tree, here, req.html[1]), "DASOk")
             [] OTHER -> Finish(appendChildren(tree, here, req.html), "DASOk")

\* PUT's fallback after a refusal: GET the element again and replace it with
\* the server's copy; the response reported is still the refused one.
FallbackResolves ==
    /\ Idle
    /\ req.stage = "fallback"
    /\ LET here == FindThis(tree)
       IN  \E getOk \in BOOLEAN :
             IF getOk /\ here # NoPath
             THEN \E copy \in {NodeAt(tree, here), E("x")} :
                     Finish(replaceChild(tree, here, copy), "DASError")
             ELSE Finish(tree, "DASError")

----------------------------------------------------------------------------
(* <http-can>: the custom element that shows its content only when the     *)
(* server's Allow header, asked for with OPTIONS, lists every method of    *)
(* its method attribute.  A missing attribute is "".  The list of methods  *)
(* to check is a set: the code only joins it into the cache key and tests  *)
(* each member.                                                            *)

MethodAttrs == { "", "delete", "GET, delete" }
CanSelectors == { "", "#old", "#list" }
Hrefs == { "", "/page" }
AttrValues(name) ==
    CASE name = "method" -> MethodAttrs
      [] name = "selector" -> CanSelectors
      [] OTHER -> Hrefs

\* (method || 'GET').toLowerCase().split(',').map(m => m.trim().toUpperCase())
MethodsToCheck(method) ==
    CASE method = "" -> {"GET"}
      [] method = "delete" -> {"DELETE"}
      [] method = "GET, delete" -> {"GET", "DELETE"}

\* What the server answers to OPTIONS: its Allow header depends on the
\* element the Range header names, the same for every URL of the document.
ServerAllows(selector, href) ==
    CASE selector = "#old" -> {"GET", "DELETE"}
      [] selector = "#list" -> {"GET"}
      [] OTHER -> {"GET", "POST"}

\* The outcomes of fetchAllowedMethods: the Allow header parsed into a set,
\* the empty set when the header is missing, an exception otherwise
FetchOutcomes == { "ok", "noallow", "fail" }
fetchAllowedMethods(selector, href, outcome) ==
    IF outcome = "ok" THEN ServerAllows(selector, href) ELSE {}

\* `${methods.sort().join(',')}:${targetType}:${target}` with
\* target = href || selector
getCacheKey(methods, selector, href) ==
    [methods |-> methods,
     type |-> IF href # "" THEN "href" ELSE "selector",
     target |-> IF href # "" THEN href ELSE selector]

HasEntry(c, key) == \E e \in c : e.key = key
EntryOf(c, key) == CHOOSE e \in c : e.key = key

\* getCachedResult deletes the entry it finds expired; fresh tells whether
\* the entry is within the TTL at the time of the lookup
cacheAfterLookup(c, key, fresh) ==
    IF HasEntry(c, key) /\ ~fresh THEN c \ {EntryOf(c, key)} ELSE c
setCachedResult(c, key, allowed) ==
    { e \in c : e.key # key } \cup { [key |-> key, allowed |-> allowed] }

\* methodsToCheck.every(m => allowedMethods.has(m))
AnyAllowed(methods, allowed) == methods \cap allowed # {}

AllAllowed(methods, allowed) == methods \subseteq allowed

\* The end of checkPermissions' try block: show or hide, and tell the page
Decide(el, method, selector, href, allowed) ==
    LET all == AllAllowed(MethodsToCheck(method), allowed)
    IN  /\ can' = [el EXCEPT !.visible = all, !.checkInProgress = FALSE]
        /\ verdict' = Verdict(TRUE, TRUE, FALSE, method, selector, href, allowed,
                              IF all THEN "http-can-allowed" ELSE "http-can-denied")

\* checkPermissions up to its first await, for the element el as the
\* callback that called it finds it
checkPermissions(el, fresh) ==
    LET key == getCacheKey(MethodsToCheck(el.method), el.selector, el.href)
    IN  IF el.selector = "" /\ el.href = ""
        THEN /\ can' = [el EXCEPT !.visible = FALSE]
             /\ verdict' = Verdict(TRUE, FALSE, FALSE, el.method, "", "", {}, "")
             /\ UNCHANGED <<check, cache>>
        ELSE IF el.checkInProgress
        THEN /\ can' = el
             /\ UNCHANGED <<check, cache, verdict>>
        ELSE IF HasEntry(cache, key) /\ fresh
        THEN /\ Decide(el, el.method, el.selector, el.href, EntryOf(cache, key).allowed)
             /\ UNCHANGED <<check, cache>>
        ELSE /\ can' = [el EXCEPT !.checkInProgress = TRUE]
             /\ check' = [stage |-> "fetch", method |-> el.method,
                          selector |-> el.selector, href |-> el.href]
             /\ cache' = cacheAfterLookup(cache, key, fresh)
             /\ UNCHANGED verdict

ConnectedCallback ==
    /\ Idle
    /\ ~can.connected
    /\ \E fresh \in BOOLEAN :
          checkPermissions([can EXCEPT !.connected = TRUE], fresh)
    /\ UNCHANGED <<domVars, echoVars, clockVars, connVars, frameVars, reqVars>>

\* setAttribute or removeAttribute by a page script, then
\* attributeChangedCallback
AttributeChanged(limit) ==
    /\ Idle
    /\ can.n < limit
    /\ \E name \in {"method", "selector", "href"} :
       \E value \in AttrValues(name) \ {can[name]} :
       \E fresh \in BOOLEAN :
          checkPermissions([can EXCEPT ![name] = value, !.n = @ + 1], fresh)
    /\ UNCHANGED <<domVars, echoVars, clockVars, connVars, frameVars, reqVars>>

\* await this.fetchAllowedMethods(selector, href) resumes, with the
\* attribute values read when the check began
OptionsResolves ==
    /\ Idle
    /\ check.stage = "fetch"
    /\ \E outcome \in FetchOutcomes :
          LET allowed == fetchAllowedMethods(check.selector, check.href, outcome)
              key == getCacheKey(MethodsToCheck(check.method), check.selector,
                                 check.href)
          IN  IF outcome = "fail"
              THEN /\ can' = [can EXCEPT !.visible = FALSE,
                                         !.checkInProgress = FALSE]
                   /\ verdict' = Verdict(TRUE, TRUE, TRUE, check.method,
                                         check.selector, check.href, {},
                                         "http-can-error")
                   /\ UNCHANGED cache
              ELSE /\ cache' = setCachedResult(cache, key, allowed)
                   /\ Decide(can, check.method, check.selector, check.href, allowed)
    /\ check' = NoCheck
    /\ UNCHANGED <<domVars, echoVars, clockVars, connVars, frameVars, reqVars>>

----------------------------------------------------------------------------
(* Specifications.  The whole program is too large to explore at once, so  *)
(* each specification runs the handlers of one part of it, the rest of the *)
(* state staying as the page load left it.                                 *)

Doc1 == << E("old"), N("list", <<E("item")>>) >>

\* The echo tracker: single-item frames, the clock, the sweep, and DASOk
\* events carrying a selector and a method.
EchoItems ==
    { Item(m, "#old", <<E("x")>>) : m \in {"PUT", "POST"} }
    \cup { Item(m, s, <<>>) : m \in {"DELETE", "delete"}, s \in {"#old", "#list"} }

Init == InitWith({Doc1}, {DefaultOptions})

Next ==
    \/ \E k \in DOMAIN socks : OnOpen(k)
    \/ \E k \in DOMAIN socks : OnClose(k)
    \/ \E k \in DOMAIN socks : OnMessage(k, MaxFrames, 1)
    \/ ForEachItem(EchoItems)
    \/ Tick
    \/ Sweep
    \/ PageDASOk({"#old", ""})

Spec == Init /\ [][Next]_vars

\* The element methods and the broadcast of the mutation they made
LocalItems == { Item("POST", "#old", <<E("y")>>), Item("DELETE", "#old", <<>>) }

NextLocal ==
    \/ \E k \in DOMAIN socks : OnOpen(k)
    \/ \E k \in DOMAIN socks : OnClose(k)
    \/ \E k \in DOMAIN socks : OnMessage(k, MaxFrames, 1)
    \/ ForEachItem(LocalItems)
    \/ CallMethod
    \/ ServerHandles
    \/ FetchResolves
    \/ TextResolves
    \/ FallbackResolves

SpecLocal == Init /\ [][NextLocal]_vars

\* The frame loop on one frame of several items, after any DASOk events
InitFrames == InitWith(InitialDocs, {DefaultOptions})

NextFrames ==
    \/ \E k \in DOMAIN socks : OnOpen(k)
    \/ \E k \in DOMAIN socks : OnClose(k)
    \/ \E k \in DOMAIN socks : OnMessage(k, 1, MaxFrameLen)
    \/ ForEachItem(Items)
    \/ PageDASOk({"#old", ""})

SpecFrames == InitFrames /\ [][NextFrames]_vars

\* The connection: sockets, the reconnect timer, close() and reconnect()
InitConn == InitWith({Doc1}, OptionSets)

NextConn ==
    \/ \E k \in DOMAIN socks : OnOpen(k)
    \/ \E k \in DOMAIN socks : OnClose(k)
    \/ TimerFires(MaxAttempts)
    \/ Close
    \/ Reconnect(MaxAttempts)

SpecConn == InitConn /\ [][NextConn]_vars

\* The control object: close(), reconnect() and send() at any moment of the
\* connection's life
NextControl ==
    \/ \E k \in DOMAIN socks : OnOpen(k)
    \/ \E k \in DOMAIN socks : OnClose(k)
    \/ TimerFires(MaxControlAttempts)
    \/ Close
    \/ Reconnect(MaxControlAttempts)
    \/ Send

SpecControl == InitConn /\ [][NextControl]_vars

\* Frames of several items among the other events of the page: socket
\* events, the reconnect timer, the clock and the sweep
AtomicItems == { Item("DELETE", "#old", <<>>), Item("POST", "#list", <<E("x")>>) }

NextAtomic ==
    \/ \E k \in DOMAIN socks : OnOpen(k)
    \/ \E k \in DOMAIN socks : OnClose(k)
    \/ TimerFires(MaxAtomicSockets)
    \/ \E k \in DOMAIN socks : OnMessage(k, MaxFrames, MaxFrameLen)
    \/ ForEachItem(AtomicItems)
    \/ Tick
    \/ Sweep

SpecAtomic == Init /\ [][NextAtomic]_vars

\* Several subscriptions: the automatic one and those of page scripts
SubItems == { Item("DELETE", "#old", <<>>), Item("POST", "#list", <<E("x")>>) }

MainSocks == { k \in DOMAIN socks : Owner(subs, k) = 0 }

NextSubs ==
    \/ \E k \in MainSocks : OnOpen(k)
    \/ \E k \in MainSocks : OnClose(k)
    \/ Close
    \/ Subscribe(MaxSubSockets)
    \/ \E i \in DOMAIN subs : SubOpen(i)
    \/ \E i \in DOMAIN subs : SubClosed(i)
    \/ \E i \in DOMAIN subs : SubClose(i)
    \/ ServerPush(SubItems)
    \/ \E k \in DOMAIN socks : Deliver(k)
    \/ ForEachPushed

SpecSubs == Init /\ [][NextSubs]_vars

\* The backoff under any options: SUBSCRIBE takes the reconnectDelay and the
\* maxReconnectDelay it is given as they are
AnyOptions == OptionSets \cup { Options(TRUE, 2000, 1500), Options(TRUE, 1500, 1500) }

InitBackoff == InitWith({Doc1}, AnyOptions)

NextBackoff ==
    \/ \E k \in DOMAIN socks : OnOpen(k)
    \/ \E k \in DOMAIN socks : OnClose(k)
    \/ TimerFires(MaxBackoffSockets)

SpecBackoff == InitBackoff /\ [][NextBackoff]_vars

\* reconnect() and close() among the frames of the sockets
NextSupersede ==
    \/ \E k \in DOMAIN socks : OnOpen(k)
    \/ \E k \in DOMAIN socks : OnClose(k)
    \/ TimerFires(MaxSupersedeSockets)
    \/ Close
    \/ Reconnect(MaxSupersedeSockets)
    \/ \E k \in DOMAIN socks : OnMessage(k, MaxFrames, 1)
    \/ ForEachItem(AtomicItems)

SpecSupersede == Init /\ [][NextSupersede]_vars

\* The sweep of the echo tracker when its interval timer is served on time
NextSweep ==
    \/ PageDASOk({"#old", "#list"})
    \/ TickOnTime(MaxSweepTicks)
    \/ Sweep

SpecSweep == Init /\ [][NextSweep]_vars

\* The <http-can> element: its callbacks and its OPTIONS request
NextCan ==
    \/ ConnectedCallback
    \/ AttributeChanged(MaxAttrChanges)
    \/ OptionsResolves

SpecCan == Init /\ [][NextCan]_vars

----------------------------------------------------------------------------
(* Claims about the echo tracker (specification Spec)                      *)

\* A step of the frame loop, and the item it processed
ItemStep == Len(seen') = Len(seen) + 1
StepUpdate == seen'[Len(seen')].update
LastSeen == seen[Len(seen)]

C4_SuppressesOnce == \A s \in AllSelectors : suppressed[s] <= 1

\* C5: an inbound update (A, M) arriving CHANGE_TIMEOUT or more after the
\* last record of (A, M) is applied as if nothing had been recorded: the tree
\* is what applying it gives and, when it applied, its notification follows.
C5_ExpiredEntryApplies ==
    [][ ( /\ ItemStep
          /\ StepUpdate.selector \in AllSelectors
          /\ ToUpperCase(StepUpdate.method) \in Methods
          /\ recordedAt[StepUpdate.selector][ToUpperCase(StepUpdate.method)] >= 0
          /\ now - recordedAt[StepUpdate.selector][ToUpperCase(StepUpdate.method)]
                >= CHANGE_TIMEOUT )
        => LET r == ApplyToDom(tree, StepUpdate)
           IN  /\ tree' = r.tree
               /\ r.action \in {"replaced", "appended", "deleted"}
                    => notes' = Append(notes, Note(Len(seen'), StepUpdate, r.action)) ]_vars

\* a PUT arriving exactly CHANGE_TIMEOUT after its record, which no sweep has
\* removed from the map, replaced the element and was notified
C5_Witness ==
    /\ seen # <<>>
    /\ LastSeen.update = Item("PUT", "#old", <<E("x")>>)
    /\ recordedAt["#old"]["PUT"] >= 0
    /\ now - recordedAt["#old"]["PUT"] = CHANGE_TIMEOUT
    /\ localChanges["#old"] = [timestamp |-> recordedAt["#old"]["PUT"], method |-> "PUT"]
    /\ Len(notes) = 1
    /\ notes[1].action = "replaced"
    /\ querySelector(tree, "#old") = NoPath

----------------------------------------------------------------------------
(* Claims about the element methods (specification SpecLocal)              *)

\* C2: when an element method has ended with DASOk, the mutation it made is
\* on record under the element's selector and the method's name.
C2_SuccessIsRecorded ==
    (req.stage = "done" /\ req.event = "DASOk")
        => /\ recordedAt[req.selector][req.method] >= 0
           /\ recorded[req.selector].method = req.method

\* C3: the broadcast of the client's own mutation is never applied by the
\* frame loop, however its arrival interleaves with the HTTP response.
C3_OwnBroadcastNeverApplied ==
    \A i \in DOMAIN seen :
        seen[i].origin = "self" => seen[i].action = "false"

----------------------------------------------------------------------------
(* Claims about the frame loop (specification SpecFrames)                  *)

\* C6: the notifications of a frame are delivered in the order of its items
\* (each is for an item processed, with increasing positions), and a step
\* of the loop delivers nothing but the notification of the item it has
\* just applied, so that notification precedes the next item's application.
Ordered(ns, ss) ==
    /\ \A j \in DOMAIN ns :
          ns[j].idx \in DOMAIN ss /\ ns[j].update = ss[ns[j].idx].update
    /\ \A i, j \in DOMAIN ns : i < j => ns[i].idx < ns[j].idx

C6_NotifiedInFrameOrder ==
    [][ ItemStep =>
          /\ Ordered(notes', seen')
          /\ \/ notes' = notes
             \/ /\ Len(notes') = Len(notes) + 1
                /\ SubSeq(notes', 1, Len(notes)) = notes
                /\ notes'[Len(notes')].idx = Len(seen')
                /\ tree' = ApplyToDom(tree, StepUpdate).tree ]_vars

\* a frame [DELETE, POST] whose two notifications came in that order
C6_Witness ==
    /\ Len(seen) = 2
    /\ Len(notes) = 2
    /\ notes[1].idx = 1 /\ notes[1].action = "deleted"
    /\ notes[2].idx = 2 /\ notes[2].action = "appended"

\* C7: a frame [DELETE X, POST Y c] with content c, neither item being the
\* echo of a local change, X matching when the frame arrives and Y matching
\* once X is removed: afterwards X matches nothing, the nodes of c are the
\* last children of Y, and the notifications are deleted, then appended.
DeleteThenPost ==
    /\ remaining = 0
    /\ Len(seen) = 2
    /\ ToUpperCase(seen[1].update.method) = "DELETE"
    /\ ToUpperCase(seen[2].update.method) = "POST"
    /\ seen[1].update.selector \in Selectors
    /\ seen[2].update.selector \in Selectors
    /\ seen[2].update.content # <<>>
    /\ ~seen[1].echo /\ ~seen[2].echo
    /\ querySelector(tree0, seen[1].update.selector) # NoPath
    /\ querySelector(remove(tree0, querySelector(tree0, seen[1].update.selector)),
                     seen[2].update.selector) # NoPath

----------------------------------------------------------------------------
(* Claims about the connection (specification SpecConn)                    *)

\* The delays of section 8 of the specification
ExpectedWait(i) ==
    CASE i = 1 -> 1000
      [] i = 2 -> 2000
      [] i = 3 -> 4000
      [] i = 4 -> 8000
      [] i = 5 -> 16000
      [] OTHER -> 30000

\* C8: with the default options the delays scheduled since the last open
\* (or since the start) are 1000, 2000, 4000, 8000, 16000, 30000, 30000, ...
C8_BackoffSequence ==
    opts = DefaultOptions =>
        \A i \in DOMAIN waits :
            /\ waits[i] = ExpectedWait(i)
            /\ i > 1 => waits[i] = Min(2 * waits[i - 1], opts.maxReconnectDelay)

\* seven closes in a row without an open
C8_Witness ==
    /\ opts = DefaultOptions
    /\ Len(waits) = 7
    /\ waits[5] = 16000 /\ waits[6] = 30000 /\ waits[7] = 30000

\* C9: the first delay scheduled after an open is reconnectDelay
C9_DelayResetOnOpen ==
    (everOpened /\ waits # <<>>) => waits[1] = opts.reconnectDelay

\* the socket of the third automatic attempt opened and then closed
C9_Witness ==
    /\ everOpened
    /\ Len(prevWaits) = 3
    /\ Len(waits) = 1
    /\ waits[1] = opts.reconnectDelay
    /\ currentReconnectDelay = opts.reconnectDelay
    /\ opts.reconnect

\* C10: with reconnect enabled and close() not called, every step in which
\* a connection fails (a socket closes, or the timer's connect() cannot create
\* its socket) leaves a reconnect attempt scheduled or a socket connecting.
ConnectionFails ==
    \/ \E k \in DOMAIN socks : socks[k] # "CLOSED" /\ socks'[k] = "CLOSED"
    \/ timers' # timers /\ timers' \subseteq timers /\ socks' = socks

RetryUnderWay ==
    \/ timers # {}
    \/ ws # 0 /\ socks[ws] \in {"CONNECTING", "OPEN"}

C10_FailureLeadsToRetry ==
    [][ (opts.reconnect /\ ~isIntentionallyClosed' /\ ConnectionFails)
          => RetryUnderWay' ]_vars

----------------------------------------------------------------------------
(* Claims about the control object (specification SpecControl)             *)

\* Steps that are a call of reconnect(), of send()
ReconnectStep == call'.name = "reconnect" /\ call'.bit # call.bit /\ call'.result = ""
SendStep == call'.bit # call.bit /\ call'.result # ""

\* C11: from a call of close() until reconnect() is called, no step
\* schedules a reconnect timer, runs one, or creates a socket.
C11_NoReconnectAfterClose ==
    [][ (call.name = "close" /\ call'.name = "close")
          => /\ timerSeq' = timerSeq
             /\ timers' = timers
             /\ Len(socks') = Len(socks) ]_vars

\* close() on the open socket, whose close event then scheduled nothing
C11_Witness ==
    /\ call.name = "close"
    /\ opts.reconnect
    /\ Len(socks) = 1
    /\ socks[1] = "CLOSED"
    /\ everOpened
    /\ conn = "disconnected"
    /\ waits = <<>>
    /\ timers = {}

\* C12: after close() was called with a reconnect timer pending, no timer
\* is pending, no socket is connecting or open, and the last connection
\* notification is the disconnection that scheduled the timer.
C12_CloseCancelsPendingAttempt ==
    (call.name = "close" /\ call.pending # {})
        => /\ timers = {}
           /\ \A k \in DOMAIN socks : socks[k] = "CLOSED"
           /\ conn = "disconnected"

\* close() during the second backoff wait
C12_Witness ==
    /\ call.name = "close"
    /\ call.pending # {}
    /\ Len(waits) = 2
    /\ Len(socks) = 2

\* C13: after reconnect() has returned, isIntentionallyClosed is false.
C13_ReconnectClearsIntentionalClose ==
    call.name = "reconnect" => ~isIntentionallyClosed

\* C14: a call of reconnect() leaves no timer pending and creates at most
\* one socket, at once, which becomes the subscription's socket; until the
\* next call of close() or reconnect() no other socket is created and no
\* timer runs.
C14_ReconnectIsImmediateAndSingle ==
    [][ /\ ReconnectStep
          => /\ timers' = {}
             /\ Len(socks') <= Len(socks) + 1
             /\ Len(socks') = Len(socks) + 1
                  => ws' = Len(socks') /\ socks'[ws'] = "CONNECTING"
        /\ (call.name = "reconnect" /\ call'.name = "reconnect" /\ ~ReconnectStep)
          => /\ Len(socks') = Len(socks)
             /\ timers' = timers ]_vars

\* reconnect() during a backoff wait; the socket it created has opened
C14_Witness ==
    /\ call.name = "reconnect"
    /\ call.pending # {}
    /\ timers = {}
    /\ Len(socks) = 2
    /\ ws = 2
    /\ socks[2] = "OPEN"

\* C15: send() transmits on the subscription's socket when it is OPEN and
\* throws otherwise, transmitting nothing; no other step transmits.
C15_SendOnlyWhenOpen ==
    [][ /\ SendStep
          => IF ws # 0 /\ socks[ws] = "OPEN"
             THEN wire' = Append(wire, ws) /\ call'.result = "sent"
             ELSE wire' = wire /\ call'.result = "throw"
        /\ ~SendStep => wire' = wire ]_vars

\* send() threw, the socket has opened since, nothing was transmitted
C15_Witness ==
    /\ call.result = "throw"
    /\ wire = <<>>
    /\ ws # 0
    /\ socks[ws] = "OPEN"

----------------------------------------------------------------------------
(* Claims about several subscriptions (specification SpecSubs)             *)

Channels == { k \in DOMAIN socks : socks[k] \in {"CONNECTING", "OPEN"} }

\* C16: at every moment at most one channel to the page's resource is
\* connecting or open, however many subscriptions there are.
C16_OneChannelPerResource == Cardinality(Channels) <= 1

\* The subscription is live: close() has not been called on it
Live(i) == IF i = 0 THEN ~isIntentionallyClosed ELSE ~subs[i].closed
SockOf(i) == IF i = 0 THEN ws ELSE subs[i].sock
Applied == seen'[Len(seen')].action \in {"replaced", "appended", "deleted"}

\* C17: a socket is closed by close() only when the subscription that owns
\* it is closed by that step, which changes no other socket and no other
\* subscription; the socket of a live subscription is never being closed,
\* and an update applied from it still reaches its callback.
C17_CloseStopsOnlyItsOwn ==
    [][ /\ \A k \in DOMAIN socks :
              (socks[k] \in {"CONNECTING", "OPEN"} /\ socks'[k] = "CLOSING")
                => LET o == Owner(subs, k)
                   IN  /\ ~Live(o)'
                       /\ \A j \in DOMAIN socks : j # k => socks'[j] = socks[j]
                       /\ \A j \in DOMAIN subs : j # o => subs'[j] = subs[j]
                       /\ o # 0 => /\ isIntentionallyClosed' = isIntentionallyClosed
                                   /\ timers' = timers /\ ws' = ws
        /\ \A i \in {0} \cup DOMAIN subs' :
              (Live(i)' /\ SockOf(i)' # 0) => socks'[SockOf(i)'] # "CLOSING"
        /\ (ItemStep /\ Applied /\ rcv # 0 /\ Accepts(subs[rcv].filter, StepUpdate))
              => subs'[rcv].got = Append(subs[rcv].got, StepUpdate) ]_vars

\* the automatic subscription was closed and its socket has closed; the
\* page's subscription is open and its callback has received an update
C17_Witness ==
    /\ isIntentionallyClosed
    /\ ws = 1
    /\ socks[1] = "CLOSED"
    /\ Len(subs) = 1
    /\ ~subs[1].closed
    /\ subs[1].sock = 2
    /\ socks[2] = "OPEN"
    /\ rcv = 1
    /\ remaining = 0
    /\ subs[1].got # <<>>

\* C18: a step of the frame loop calls the update callback of a live, open
\* subscription exactly when the step applied the update and the
\* subscription's filter accepts the update's selector.
C18_CallbackIffAddressed ==
    [][ ItemStep =>
          \A i \in DOMAIN subs :
              (Live(i) /\ SockOf(i) # 0 /\ socks[SockOf(i)] = "OPEN")
                => ( subs'[i].got # subs[i].got
                       <=> (Applied /\ Accepts(subs[i].filter, StepUpdate)) ) ]_vars

----------------------------------------------------------------------------
(* Claims about PUT in applyUpdate (specification SpecFrames)              *)

\* An inbound PUT that is not an echo and whose selector matches
PutStep ==
    /\ ItemStep
    /\ ToUpperCase(StepUpdate.method) = "PUT"
    /\ StepUpdate.selector \in Selectors
    /\ querySelector(tree, StepUpdate.selector) # NoPath
    /\ ~seen'[Len(seen')].echo

C20_PutRejectsOtherCounts ==
    [][ (PutStep /\ Len(ElementsOf(StepUpdate.content)) # 1)
          => /\ tree' = tree
             /\ seen'[Len(seen')].action # "replaced" ]_vars

----------------------------------------------------------------------------
(* Claims about POST and about updates that cannot be applied              *)
(* (specification SpecFrames)                                              *)

\* An inbound POST that is not an echo and whose selector matches
PostStep ==
    /\ ItemStep
    /\ ToUpperCase(StepUpdate.method) = "POST"
    /\ StepUpdate.selector \in Selectors
    /\ querySelector(tree, StepUpdate.selector) # NoPath
    /\ ~seen'[Len(seen')].echo

\* C21: an inbound POST whose selector matches makes the nodes of its
\* content, none included, the last children of the matched element in
\* content order, changes nothing else, and is notified as 'appended'.
C21_PostAppendsZeroOrMore ==
    [][ PostStep
          => LET p == querySelector(tree, StepUpdate.selector)
             IN  /\ NodeAt(tree', p).kids = NodeAt(tree, p).kids \o StepUpdate.content
                 /\ remove(tree', p) = remove(tree, p)
                 /\ notes' = Append(notes, Note(Len(seen'), StepUpdate, "appended")) ]_vars

\* C22: an inbound update with a method and a selector that matches nothing
\* changes neither the tree nor the connection, is reported, and the frame
\* goes on with its next item.
C22_UnmatchedIsReported ==
    [][ ( /\ ItemStep
          /\ StepUpdate.selector \in Selectors
          /\ ToUpperCase(StepUpdate.method) \in Methods
          /\ querySelector(tree, StepUpdate.selector) = NoPath
          /\ ~seen'[Len(seen')].echo )
          => /\ tree' = tree
             /\ socks' = socks
             /\ remaining' = remaining - 1
             /\ Len(notes') = Len(notes) + 1
             /\ notes'[Len(notes')].idx = Len(seen') ]_vars

\* C23: an item without a method or without a selector changes nothing in
\* the tree, is reported, and the frame goes on with its next item.
C23_IncompleteSectionIsReported ==
    [][ ( /\ ItemStep
          /\ (StepUpdate.method = "" \/ StepUpdate.selector = "") )
          => /\ tree' = tree
             /\ remaining' = remaining - 1
             /\ Len(notes') = Len(notes) + 1
             /\ notes'[Len(notes')].idx = Len(seen') ]_vars

\* C24: whatever happens while one item of a frame is processed, the items
\* after it are still processed and the socket stays as it is.
C24_FailureConfinedToItsUpdate ==
    [][ ItemStep => (remaining' = remaining - 1 /\ socks' = socks) ]_vars

----------------------------------------------------------------------------
(* Claims about the records of the echo tracker (specification Spec)       *)

\* A local mutation (sel, m) was recorded less than CHANGE_TIMEOUT ago
RecordedRecently(sel, m) ==
    /\ recordedAt[sel][m] >= 0
    /\ now - recordedAt[sel][m] < CHANGE_TIMEOUT

\* C29: an inbound update is dropped as an echo exactly when a local
\* mutation with its selector and its upper-cased method was recorded less
\* than CHANGE_TIMEOUT ago.
C29_EchoIffRecordedRecently ==
    [][ ( /\ ItemStep
          /\ StepUpdate.selector \in AllSelectors
          /\ ToUpperCase(StepUpdate.method) \in Methods )
          => ( seen'[Len(seen')].echo
                 <=> RecordedRecently(StepUpdate.selector,
                                      ToUpperCase(StepUpdate.method)) ) ]_vars

\* C30: after a PUT and then a DELETE were recorded for "#old", both less
\* than CHANGE_TIMEOUT ago, an inbound PUT "#old" is dropped: the tree is
\* unchanged and nothing is notified.
C30_EarlierRecordSurvives ==
    [][ ( /\ ItemStep
          /\ StepUpdate = Item("PUT", "#old", <<E("x")>>)
          /\ RecordedRecently("#old", "PUT")
          /\ RecordedRecently("#old", "DELETE")
          /\ recordedAt["#old"]["PUT"] <= recordedAt["#old"]["DELETE"] )
          => (tree' = tree /\ notes' = notes) ]_vars

----------------------------------------------------------------------------
(* Claim about the frame loop among other events (specification SpecAtomic) *)

\* C28: while items of a frame remain to be processed, every step is the
\* processing of the next item of that frame: no frame begins, no socket
\* changes state, no timer is set or runs, the clock's sweep does not run
\* and the map of local changes is not touched.
C28_FrameIsAtomic ==
    [][ remaining > 0
          => /\ ItemStep
             /\ nframes' = nframes
             /\ socks' = socks /\ ws' = ws /\ conn' = conn
             /\ timers' = timers /\ timerSeq' = timerSeq
             /\ now' = now /\ sweepDue' = sweepDue
             /\ localChanges' = localChanges ]_vars

\* the second frame applied its two items while the sweep was due
C28_Witness ==
    /\ nframes = 2
    /\ remaining = 0
    /\ Len(seen) = 2
    /\ Len(notes) = 2
    /\ now >= sweepDue
    /\ tree = << N("list", <<E("item"), E("x")>>) >>

----------------------------------------------------------------------------
(* Claim about pushes and several subscriptions (specification SpecSubs)   *)

\* C27: an update pushed by the server is applied to the tree at most
\* once, however many subscriptions are live.
C27_AppliedOnce == push.applied <= 1

----------------------------------------------------------------------------
(* Claims about <http-can> (specification SpecCan)                         *)

C26_DecidedForCurrentAttributes ==
    ( ~can.checkInProgress /\ can.connected )
        => ( /\ verdict.decided
             /\ verdict.method = can.method
             /\ verdict.selector = can.selector
             /\ verdict.href = can.href )

----------------------------------------------------------------------------
(* Claims about the origin of inbound updates and about the sweep          *)
(* (specification Spec)                                                    *)

\* C31: an inbound update that another client originated is never dropped
\* as an echo, even when a local mutation with its address and method was
\* recorded less than CHANGE_TIMEOUT ago.
C31_OnlyOwnBouncesDropped ==
    [][ ( ItemStep /\ seen'[Len(seen')].origin = "other" )
        => ~seen'[Len(seen')].echo ]_vars

\* A step of the sweep
SweepStep == sweepDue' # sweepDue

\* C32: right after a sweep the map holds no entry whose age has reached
\* CHANGE_TIMEOUT, that is, no entry the echo check treats as expired.
C32_SweepEvictsExpired ==
    [][ SweepStep
        => \A s \in AllSelectors :
              localChanges'[s] # NoChange
                 => now' - localChanges'[s].timestamp < CHANGE_TIMEOUT ]_vars

\* C33: the sweep does not change the answer of the echo check, for any
\* inbound update, at the time of the sweep or at any later time.
C33_SweepKeepsEchoAnswers ==
    [][ SweepStep
        => \A u \in EchoItems, d \in 0..MaxTicks :
              IsLocalEcho(localChanges', now' + d * Step, u)
                 = IsLocalEcho(localChanges, now + d * Step, u) ]_vars

\* a sweep has run and kept an entry recorded before it that is still inside
\* its CHANGE_TIMEOUT
C33_Witness ==
    /\ sweepDue > CHANGE_TIMEOUT
    /\ localChanges["#old"] # NoChange
    /\ localChanges["#old"].timestamp < sweepDue - CHANGE_TIMEOUT
    /\ now - localChanges["#old"].timestamp < CHANGE_TIMEOUT
    /\ IsLocalEcho(localChanges, now, Item("PUT", "#old", <<E("x")>>))

----------------------------------------------------------------------------
(* Claims about the sweep served on time (specification SpecSweep)         *)

----------------------------------------------------------------------------
(* Claims about the reconnect timer (specification SpecControl)            *)

\* C35: whenever a reconnect timer is pending, the reconnect option is on,
\* isIntentionallyClosed is false and the subscription's current socket is
\* CLOSED.
C35_ScheduledOnlyFromClosed ==
    timers # {}
        => /\ opts.reconnect
           /\ ~isIntentionallyClosed
           /\ ws # 0
           /\ socks[ws] = "CLOSED"

\* a socket that had opened was closed by the network and its retry is pending
C35_Witness ==
    /\ timers # {}
    /\ everOpened
    /\ conn = "disconnected"
    /\ ws # 0
    /\ socks[ws] = "CLOSED"
    /\ call = NoCall

\* C36: a subscription has at most one reconnect timer pending, whatever
\* closes, close() calls and reconnect() calls have happened.
C36_OneTimerPending == Cardinality(timers) <= 1

\* the retry of a second involuntary close is pending alone: the first
\* timer has fired and made the one socket that has just closed
C36_Witness ==
    /\ Cardinality(timers) = 1
    /\ timerSeq = 2
    /\ Len(socks) >= 2
    /\ \A k \in DOMAIN socks : socks[k] = "CLOSED"

----------------------------------------------------------------------------
(* Claims about the backoff under any options (specification SpecBackoff)  *)

\* C37: whatever options SUBSCRIBE was given, currentReconnectDelay never
\* exceeds maxReconnectDelay and every reconnect attempt is scheduled with a
\* wait of at most maxReconnectDelay.
C37_DelayBounded ==
    /\ currentReconnectDelay <= opts.maxReconnectDelay
    /\ \A t \in timers : t.delay <= opts.maxReconnectDelay
    /\ \A i \in DOMAIN waits : waits[i] <= opts.maxReconnectDelay

----------------------------------------------------------------------------
(* Claims about reconnect() among frames (specification SpecSupersede)     *)

\* C38: a subscription never has two live sockets, and every stream item
\* the frame loop processes belongs to a frame received on the current one:
\* after reconnect() no frame of the superseded socket is applied or
\* notified.
C38_OneLiveChannel ==
    [][ /\ \A k \in DOMAIN socks' :
              socks'[k] \in {"CONNECTING", "OPEN"} => k = ws'
        /\ ItemStep => frameSock' = ws' ]_vars

\* after reconnect() on an open socket, an update received on the new socket
\* was applied and notified while the old socket was still closing
C38_Witness ==
    /\ call.name = "reconnect"
    /\ ws = 2
    /\ socks[1] = "CLOSING"
    /\ frameSock = 2
    /\ seen # <<>>
    /\ LastSeen.action = "deleted"
    /\ notes # <<>>

\* C39: the latest connection notification is never "disconnected" while
\* the subscription's current socket is OPEN: the old socket's disconnected
\* notification precedes the new socket's connected notification.
C39_NotificationsFollowCurrent ==
    ( ws # 0 /\ socks[ws] = "OPEN" ) => conn = "connected"

----------------------------------------------------------------------------
(* Claims about the cache of <http-can> (specification SpecCan)            *)

\* C40: the allowed set a check tests its methods against is the one the
\* server returned for the check's own selector and href (the empty set
\* when the answer had no Allow header), whether it was fetched or cached.
C40_AllowedSetIsTargets ==
    ( verdict.decided /\ verdict.given /\ ~verdict.failed )
        => verdict.allowed \in { ServerAllows(verdict.selector, verdict.href), {} }

====
